---------------------------- MODULE Spec2Model ----------------------------
(***************************************************************************)
(* A model of realcugan_rs: the shareable handle RealCugan over a native   *)
(* upscaling context (src/src/rs/realcugan.rs), its Builder                *)
(* (src/src/rs/builder.rs), and the earlier single-file revision           *)
(* (src/src/lib.rs).                                                       *)
(*                                                                         *)
(* Threads run the operations of the handle (new, clone, process, drop)    *)
(* one shared-memory access or native call at a time.  The native engine   *)
(* is a stub that records which contexts realcugan_init returned and how   *)
(* often realcugan_free was called on each.                                *)
(***************************************************************************)
EXTENDS Integers, FiniteSets, Sequences, TLC

(***************************************************************************)
(* Bounds of the model.                                                    *)
(***************************************************************************)
MaxHandles == 3          \* RealCugan values ever created (new + clone)
MaxNew     == 1          \* constructions that reach realcugan_init
DeviceCount == 1         \* what realcugan_get_gpu_count reports
MaxPool    == 256        \* further contexts live at once, one handle each

(***************************************************************************)
(* Program constants.                                                      *)
(***************************************************************************)
CpuSentinel == -1        \* gpu == -1 selects the CPU
Null        == 0         \* the null pointer

\* Two threads: the one that constructs (the test's main thread) and one
\* that is handed clones (a thread the test spawns).
Main       == "main"
Threads    == {Main, "spawned"}
Workers    == Threads \ {Main}
SeqThreads == {Main}
Handles    == 1 .. MaxHandles
Ctxs       == 1 .. MaxNew

VARIABLES
    INSTANCES,   \* static INSTANCES: AtomicU8
    handles,     \* the RealCugan values: their fields and whether they are live
    arcs,        \* the Arc<AtomicPtr<c_void>> allocations: pointer and strong count
    cons,        \* per native context: what became of the construction that made it
    freeCalls,   \* per native context: number of realcugan_free calls on it
    th,          \* per thread: the operation it runs and where it is in it
    builder,     \* the Builder value being configured
    pool         \* number of further live contexts, each held by one handle

vars == <<INSTANCES, handles, arcs, cons, freeCalls, th, builder, pool>>

--------------------------------------------------------------------------
(* 32-bit conversions *)

\* A u32 is held as its top bit and its low 31 bits, so that every value
\* stays within the integers the model checker computes with.
U32(top, low) == [top |-> top, low |-> low]

\* the comparison x >= n of a u32 x with a small non-negative n
U32AtLeast(x, n) == x.top = 1 \/ x.low >= n

\* `x as i32` for a u32 x: the same 32 bits read as two's complement
AsI32(x) == IF x.top = 1 THEN (x.low - 2147483647) - 1 ELSE x.low

\* AtomicU8::fetch_add(1) and fetch_sub(1) wrap around
U8Inc(x) == (x + 1) % 256
U8Dec(x) == (x + 255) % 256

MaxI32 == 2147483647
MinI32 == -2147483647 - 1

\* i32 addition that wraps around (two's complement)
WrapAdd(a, b) ==
    IF a >= 0 /\ b >= 0 /\ a > MaxI32 - b
      THEN ((a - MaxI32) - 1) + ((b - MaxI32) - 1)
      ELSE IF a < 0 /\ b < 0 /\ a < MinI32 - b
        THEN ((a + MaxI32) + 1) + ((b + MaxI32) + 1)
        ELSE a + b

\* i32 negation that wraps around
WrapNeg(a) == IF a = MinI32 THEN MinI32 ELSE 0 - a

\* i32 multiplication that wraps around: what `a * b` yields in a build
\* without overflow checks
RECURSIVE WrappingMul(_, _)
WrappingMul(a, b) ==
    IF b = 0 THEN 0
    ELSE IF b = MinI32 THEN (IF a % 2 = 0 THEN 0 ELSE MinI32)
    ELSE IF b < 0 THEN WrappingMul(WrapNeg(a), 0 - b)
    ELSE LET rest == WrappingMul(WrapAdd(a, a), b \div 2) IN
         IF b % 2 = 1 THEN WrapAdd(rest, a) ELSE rest

\* whether `a * b` overflows i32: a build with overflow checks panics there
MulOverflows(a, b) ==
    LET abs(x) == IF x < 0 THEN 0 - x ELSE x IN
    /\ a # 0 /\ b # 0
    /\ \/ a = MinI32 \/ b = MinI32
       \/ abs(a) > MaxI32 \div abs(b)

--------------------------------------------------------------------------
(* Parameter heuristics *)

\* a slip calculate_prepadding could have: a default instead of an error
calculate_prepadding_or_default(scale) ==
    CASE scale = 2 -> 18
      [] scale = 3 -> 14
      [] scale = 4 -> 19
      [] OTHER     -> 18

\* calculate_prepadding: 0 stands for Err
calculate_prepadding(scale) ==
    CASE scale = 2 -> 18
      [] scale = 3 -> 14
      [] scale = 4 -> 19
      [] OTHER     -> 0

\* heap budgets realcugan_get_heap_budget may report for a device: a c_uint
HeapBudgets == {U32(0, 100), U32(0, 2000)}

\* the budgets around every threshold of the tables, and the ends of c_uint
AllHeapBudgets ==
    {U32(0, n) : n \in {0, 200, 201, 240, 241, 320, 321, 530, 531, 800, 801,
                        950, 951, 980, 981, 1300, 1301, 1690, 1691,
                        1900, 1901, 3300, 3301, MaxI32}}
      \cup {U32(1, 0), U32(1, MaxI32)}

DEFAULT_CPU_TILE_SIZE == 400
MIN_TILE_SIZE == 32

\* the (threshold, size) pairs calculate_tile_size goes through for a scale
thresholds(scale) ==
    CASE scale = 2 -> <<<<1300, 400>>, <<800, 300>>, <<200, 100>>>>
      [] scale = 3 -> <<<<3300, 400>>, <<1900, 300>>, <<950, 200>>, <<320, 100>>>>
      [] scale = 4 -> <<<<1690, 400>>, <<980, 300>>, <<530, 200>>, <<240, 100>>>>
      [] OTHER     -> <<>>

\* a slip calculate_tile_size could have: the requested size is not looked at
RequestedTileWinsNever(tile_size) == FALSE

\* the decision of `if tile_size != 0` in calculate_tile_size
RequestedTileWins(tile_size) == tile_size # 0

\* does calculate_tile_size reach the call of realcugan_get_heap_budget
QueriesHeapBudget(tile_size, gpu) ==
    ~RequestedTileWins(tile_size) /\ gpu # CpuSentinel

\* calculate_tile_size, given the c_uint the engine reports as heap budget;
\* heap_budget is that value after `as i32`
calculate_tile_size(tile_size, scale, gpu, reported) ==
    IF RequestedTileWins(tile_size) THEN tile_size
    ELSE IF gpu = CpuSentinel THEN DEFAULT_CPU_TILE_SIZE
    ELSE IF scale \notin {2, 3, 4} THEN MIN_TILE_SIZE
    ELSE LET heap_budget == AsI32(reported)
             ts == thresholds(scale)
             found == {i \in 1 .. Len(ts) : heap_budget > ts[i][1]}
         IN
         IF found = {} THEN MIN_TILE_SIZE
         ELSE ts[CHOOSE i \in found : \A j \in found : i <= j][2]

\* validate_gpu's decision: TRUE for Ok(())
GpuAccepted(gpu) ==
    IF gpu = CpuSentinel THEN TRUE
    ELSE ~(gpu >= DeviceCount)

--------------------------------------------------------------------------
(* State *)

\* st: none (not created), live, dropping (inside drop), dropped;
\* is_clone: made by clone rather than by new
NoHandle == [st |-> "none", arc |-> 0, scale_factor |-> 0, use_cpu |-> FALSE,
             is_clone |-> FALSE]

\* ref_count is the Arc<AtomicU8> of the src/src/lib.rs revision
NoArc == [ptr |-> Null, strong |-> 0, ref_count |-> 0]

\* the arguments of RealCugan::new; bytes tells whether param and bin are
\* empty; via and req remember the Builder selector the device came from
NoArgs == [gpu |-> 0, scale |-> 0, noise |-> 0, sync_gap |-> 0, tile_size |-> 0,
           bytes |-> "none", via |-> "none", req |-> U32(0, 0)]

\* worker: the thread runs the closure of the test `threads`, which owns the
\* clone h; unwinding: that closure panicked and its values are being dropped
\* prepading, tile: the locals prepading and tile_size of new;
\* out: the output buffer of the process call (w, h, c); status: what the
\* native processing call returned; img: realcugan_free_image calls made by
\* the process call; copied: the output bytes were read through
\* out_buffer.data; res: how process ended
NoImage == [w |-> 0, h |-> 0, c |-> 0]

IdleThread == [pc |-> "idle", args |-> NoArgs, k |-> 0, ptr |-> 0, h |-> 0,
               worker |-> FALSE, unwinding |-> FALSE,
               prepading |-> 0, tile |-> 0, heap |-> U32(0, 0),
               color |-> "none", inb |-> NoImage, out |-> NoImage,
               status |-> 0, img |-> 0, length |-> 0,
               copied |-> FALSE,
               res |-> "none"]

\* the presets: ModelParameters constants, with the family they belong to
\* and their bytes as set (include_bytes! of the model files)
ModelParameters(family, scale, noise, allow_sync_gap) ==
    [family |-> family, param |-> "set", bin |-> "set", scale |-> scale,
     noise |-> noise, allow_sync_gap |-> allow_sync_gap]

MODEL_NOSE_2X_NO_DENOISE == ModelParameters("nose", 2, 0, TRUE)
MODEL_PRO_2X_NO_DENOISE == ModelParameters("pro", 2, 0, TRUE)
MODEL_PRO_2X_CONSERVATIVE == ModelParameters("pro", 2, -1, TRUE)
MODEL_PRO_2X_DENOISE_X3 == ModelParameters("pro", 2, 3, TRUE)
MODEL_PRO_3X_NO_DENOISE == ModelParameters("pro", 3, 0, TRUE)
MODEL_PRO_3X_CONSERVATIVE == ModelParameters("pro", 3, -1, TRUE)
MODEL_PRO_3X_DENOISE_X3 == ModelParameters("pro", 3, 3, TRUE)
MODEL_SE_2X_NO_DENOISE == ModelParameters("se", 2, 0, FALSE)
MODEL_SE_2X_CONSERVATIVE == ModelParameters("se", 2, -1, FALSE)
MODEL_SE_2X_DENOISE_X1 == ModelParameters("se", 2, 1, FALSE)
MODEL_SE_2X_DENOISE_X2 == ModelParameters("se", 2, 2, FALSE)
MODEL_SE_2X_DENOISE_X3 == ModelParameters("se", 2, 3, FALSE)
MODEL_SE_3X_NO_DENOISE == ModelParameters("se", 3, 0, FALSE)
MODEL_SE_3X_CONSERVATIVE == ModelParameters("se", 3, -1, FALSE)
MODEL_SE_3X_DENOISE_X3 == ModelParameters("se", 3, 3, FALSE)
MODEL_SE_4X_NO_DENOISE == ModelParameters("se", 4, 0, FALSE)
MODEL_SE_4X_CONSERVATIVE == ModelParameters("se", 4, -1, FALSE)
MODEL_SE_4X_DENOISE_X3 == ModelParameters("se", 4, 3, FALSE)

\* enum Model, each variant as the constant Builder::model selects for it
Models ==
    {MODEL_NOSE_2X_NO_DENOISE, MODEL_PRO_2X_NO_DENOISE, MODEL_PRO_2X_CONSERVATIVE,
     MODEL_PRO_2X_DENOISE_X3, MODEL_PRO_3X_NO_DENOISE, MODEL_PRO_3X_CONSERVATIVE,
     MODEL_PRO_3X_DENOISE_X3, MODEL_SE_2X_NO_DENOISE, MODEL_SE_2X_CONSERVATIVE,
     MODEL_SE_2X_DENOISE_X1, MODEL_SE_2X_DENOISE_X2, MODEL_SE_2X_DENOISE_X3,
     MODEL_SE_3X_NO_DENOISE, MODEL_SE_3X_CONSERVATIVE, MODEL_SE_3X_DENOISE_X3,
     MODEL_SE_4X_NO_DENOISE, MODEL_SE_4X_CONSERVATIVE, MODEL_SE_4X_DENOISE_X3}

\* what a parameter file's name says: upNx gives scale N; no-denoise gives
\* noise 0, conservative -1, denoiseNx N
NoName == [scale |-> 0, noise |-> 0]

\* impl Default for Builder.  Beside the fields: via and req remember which
\* device selector was called last and with what argument; source, which
\* model source was set last; preset, the family of the preset chosen last;
\* name, what the name of the parameter file says; builds, how often build
\* was called on this value (2 stands for two or more)
BuilderDefault ==
    [files |-> "none",
     gpu |-> 0, tile_size |-> 0, sync_gap |-> 3, tta |-> FALSE, threads |-> 1,
     param |-> "empty", bin |-> "empty", scale |-> 2, noise |-> -1,
     allow_sync_gap |-> TRUE,
     via |-> "default", req |-> U32(0, 0),
     source |-> "default", preset |-> "none", name |-> NoName, builds |-> 0]

Init ==
    /\ INSTANCES = 0
    /\ handles = [h \in Handles |-> NoHandle]
    /\ arcs = [k \in Ctxs |-> NoArc]
    /\ cons = [k \in Ctxs |-> "unused"]
    /\ freeCalls = [k \in Ctxs |-> 0]
    /\ th = [t \in Threads |-> IdleThread]
    /\ builder = BuilderDefault
    /\ pool = 0

NewPcs == {"init", "load", "setp", "incr", "l_init", "l_load", "l_setp"}

\* threads inside a construction that will need a context id and a handle slot
Reserved == Cardinality({t \in Threads : th[t].pc \in NewPcs})
FreeSlots == Cardinality({h \in Handles : handles[h].st = "none"})
FreeIds == Cardinality({k \in Ctxs : cons[k] = "unused"})

FreshHandle == CHOOSE h \in Handles :
                  /\ handles[h].st = "none"
                  /\ \A g \in Handles : handles[g].st = "none" => h <= g

FreshId == CHOOSE k \in Ctxs :
              /\ cons[k] = "unused"
              /\ \A j \in Ctxs : cons[j] = "unused" => k <= j

\* a process call holds &self of its handle until it returns
Borrowed(h) == \E t \in Threads : th[t].pc \in {"p_load", "p_native"} /\ th[t].h = h

\* the handle was moved into a spawned thread's closure
Moved(h) == \E t \in Threads : th[t].worker /\ th[t].h = h

\* a value its owner can still use
Usable(h) == handles[h].st = "live" /\ ~Moved(h)

--------------------------------------------------------------------------
(* RealCugan::new, src/src/rs/realcugan.rs *)

GpuInputs   == {CpuSentinel, 0, 99, -2}
ScaleInputs == {2, 5}

\* the decision of `if INSTANCES.load(Ordering::Relaxed) == 0` in validate_gpu
ValidateTearsDown(instances) == instances = 0

\* the decision of `if INSTANCES.fetch_sub(1, ..) == 1` in drop
DropTearsDown(previous) == previous = 1

\* two slips drop's test could have: off by one, and no test at all
DropIsLastOffByOne(count) == count <= 2
DropIsLastAlways(count) == count >= 1

\* the decision of `if Arc::strong_count(&self.pointer) == 1` in drop
DropIsLast(count) == count = 1

\* validate_gpu's comparison and calculate_prepadding, both local to the
\* caller.  A rejected device goes on to read INSTANCES; a rejected scale
\* returns Err at once; otherwise the next step is realcugan_init.
NewEnter(t, a, budgets) ==
    /\ th[t].pc = "idle"
    /\ IF ~GpuAccepted(a.gpu)
         THEN th' = [th EXCEPT ![t] = [IdleThread EXCEPT !.pc = "v_load"]]
         ELSE IF calculate_prepadding(a.scale) = 0
           THEN th' = [th EXCEPT ![t] = [IdleThread EXCEPT !.pc = "bad_scale"]]
           ELSE /\ FreeIds > Reserved
                /\ FreeSlots > Reserved
                /\ \E reported \in IF QueriesHeapBudget(a.tile_size, a.gpu)
                                      THEN budgets ELSE {U32(0, 0)} :
                     /\ th' = [th EXCEPT ![t] =
                              [IdleThread EXCEPT
                                 !.pc = "init", !.args = a,
                                 !.prepading = calculate_prepadding(a.scale),
                                 !.heap = reported,
                                 !.tile = calculate_tile_size(a.tile_size, a.scale,
                                                              a.gpu, reported)]]
    /\ UNCHANGED <<INSTANCES, handles, arcs, cons, freeCalls, pool>>

\* new called with arguments that do not come from the Builder value
NewBegin(t, a) ==
    /\ NewEnter(t, a, HeapBudgets)
    /\ UNCHANGED builder

\* the arguments of a direct call with a device and a scale, the others as
\* a Builder has them by default, and model bytes given
NewArgs(gpu, scale) ==
    [gpu |-> gpu, scale |-> scale, noise |-> -1, sync_gap |-> 3, tile_size |-> 0,
     bytes |-> "set", via |-> "new", req |-> U32(0, 0)]

\* a direct call of RealCugan::new
NewStart(t) ==
    \E gpu \in GpuInputs, scale \in ScaleInputs :
        NewBegin(t, NewArgs(gpu, scale))

\* validate_gpu, device rejected: INSTANCES.load
ValidateLoad(t) ==
    /\ th[t].pc = "v_load"
    /\ th' = [th EXCEPT ![t] = IF ValidateTearsDown(INSTANCES)
                                 THEN [@ EXCEPT !.pc = "v_destroy"]
                                 ELSE IdleThread]
    /\ UNCHANGED <<INSTANCES, handles, arcs, cons, freeCalls, builder, pool>>

\* validate_gpu, device rejected: realcugan_destroy_gpu_instance, then Err
ValidateDestroy(t) ==
    /\ th[t].pc = "v_destroy"
    /\ th' = [th EXCEPT ![t] = IdleThread]
    /\ UNCHANGED <<INSTANCES, handles, arcs, cons, freeCalls, builder, pool>>

\* calculate_prepadding returned Err: new returns it
NewBadScale(t) ==
    /\ th[t].pc = "bad_scale"
    /\ th' = [th EXCEPT ![t] = IdleThread]
    /\ UNCHANGED <<INSTANCES, handles, arcs, cons, freeCalls, builder, pool>>

\* realcugan_init: the engine returns a fresh context, or null
NewInit(t) ==
    /\ th[t].pc = "init"
    /\ \E isnull \in BOOLEAN :
         LET k == FreshId IN
         /\ cons' = [cons EXCEPT ![k] = IF isnull THEN "null" ELSE "building"]
         /\ th' = [th EXCEPT ![t] = [@ EXCEPT !.pc = "load", !.k = k,
                                              !.ptr = IF isnull THEN Null ELSE k]]
    /\ UNCHANGED <<INSTANCES, handles, arcs, freeCalls, builder, pool>>

\* what new does with a context whose model failed to load: `?` returns the
\* error, the context is not released
ReleaseOnLoadFailure(ptr) == FALSE

\* a slip new could have: the counter incremented before the model is loaded
InstancesCountedBeforeLoad(instances) == U8Inc(instances)

\* INSTANCES when load_model's error has been returned by `?`: fetch_add
\* comes after it and has not run
InstancesAfterFailedLoad(instances) == instances

\* load_model: fmemopen may fail, realcugan_load_files may report nonzero
NewLoad(t) ==
    /\ th[t].pc = "load"
    /\ \E outcome \in {"no_stream", "nonzero", "zero"} :
         IF outcome = "zero"
           THEN /\ th' = [th EXCEPT ![t] = [@ EXCEPT !.pc = "setp"]]
                /\ UNCHANGED <<cons, freeCalls, pool>>
           ELSE LET k == th[t].k
                    ptr == th[t].ptr
                IN
                /\ th' = [th EXCEPT ![t] = IdleThread]
                /\ cons' = [cons EXCEPT ![k] = IF ptr = Null THEN @ ELSE "failed"]
                /\ freeCalls' = IF ptr # Null /\ ReleaseOnLoadFailure(ptr)
                                  THEN [freeCalls EXCEPT ![ptr] = @ + 1]
                                  ELSE freeCalls
    /\ INSTANCES' = IF th'[t].pc = "setp" THEN INSTANCES
                                           ELSE InstancesAfterFailedLoad(INSTANCES)
    /\ UNCHANGED <<handles, arcs, builder, pool>>

\* the arguments new passes to realcugan_set_parameters after the pointer
SetParametersCall(t) ==
    [scale |-> th[t].args.scale, noise |-> th[t].args.noise,
     prepadding |-> th[t].prepading, sync_gap |-> th[t].args.sync_gap,
     tilesize |-> th[t].tile]

\* realcugan_set_parameters
NewSetParameters(t) ==
    /\ th[t].pc = "setp"
    /\ th' = [th EXCEPT ![t] = [@ EXCEPT !.pc = "incr"]]
    /\ UNCHANGED <<INSTANCES, handles, arcs, cons, freeCalls, builder, pool>>

\* INSTANCES.fetch_add(1), then Ok(Self { Arc::new(..), scale, gpu == -1 })
NewIncr(t) ==
    /\ th[t].pc = "incr"
    /\ LET k == th[t].k
           h == FreshHandle
       IN
       /\ INSTANCES' = U8Inc(INSTANCES)
       /\ arcs' = [arcs EXCEPT ![k] = [ptr |-> th[t].ptr, strong |-> 1,
                                       ref_count |-> 0]]
       /\ handles' = [handles EXCEPT ![h] =
                        [st |-> "live", arc |-> k,
                         scale_factor |-> th[t].args.scale,
                         use_cpu |-> (th[t].args.gpu = CpuSentinel),
                         is_clone |-> FALSE]]
       /\ cons' = [cons EXCEPT ![k] = IF @ = "null" THEN @ ELSE "built"]
    /\ th' = [th EXCEPT ![t] = IdleThread]
    /\ UNCHANGED <<freeCalls, builder, pool>>

--------------------------------------------------------------------------
(* impl Clone, process, impl Drop, src/src/rs/realcugan.rs *)

\* clone: Arc::clone is one atomic increment of the strong count
Clone(t, h) ==
    /\ th[t].pc = "idle"
    /\ Usable(h)
    /\ FreeSlots > Reserved
    /\ LET n == FreshHandle
           k == handles[h].arc
       IN
       /\ arcs' = [arcs EXCEPT ![k].strong = @ + 1]
       /\ handles' = [handles EXCEPT ![n] = [handles[h] EXCEPT !.is_clone = TRUE]]
    /\ UNCHANGED <<INSTANCES, cons, freeCalls, th, builder, pool>>

\* process_image: the input and output buffers are built, process is entered
ProcessStart(t, h) ==
    /\ th[t].pc = "idle"
    /\ Usable(h)
    /\ th' = [th EXCEPT ![t] = [IdleThread EXCEPT !.pc = "p_load", !.h = h]]
    /\ UNCHANGED <<INSTANCES, handles, arcs, cons, freeCalls, builder, pool>>

\* the closure of the test `threads`: it owns a clone, processes an image
\* with it, asserts the result is Ok, and drops the clone when it ends
WorkerStart(t, h) ==
    /\ th[t].pc = "idle"
    /\ Usable(h)
    /\ ~Borrowed(h)
    /\ handles[h].is_clone
    /\ th' = [th EXCEPT ![t] = [IdleThread EXCEPT !.pc = "p_load", !.h = h,
                                                  !.worker = TRUE]]
    /\ UNCHANGED <<INSTANCES, handles, arcs, cons, freeCalls, builder, pool>>

\* where a thread is after process returned: back at its caller, or in the
\* closure holding its clone, unwinding when assert!(result.is_ok()) failed
AfterProcess(t, ok) ==
    IF th[t].worker
      THEN [th[t] EXCEPT !.pc = "w_hold", !.ptr = Null, !.unwinding = ~ok]
      ELSE IdleThread

\* process: the pointer is loaded; null returns Err, otherwise the native
\* call (realcugan_process or realcugan_process_cpu) is entered
ProcessCall(t) ==
    /\ th[t].pc = "p_load"
    /\ LET ptr == arcs[handles[th[t].h].arc].ptr IN
       th' = [th EXCEPT ![t] = IF ptr = Null THEN AfterProcess(t, FALSE)
                                 ELSE [@ EXCEPT !.pc = "p_native", !.ptr = ptr]]
    /\ UNCHANGED <<INSTANCES, handles, arcs, cons, freeCalls, builder, pool>>

\* process: the native call returns, with status 0 or not
ProcessReturn(t) ==
    /\ th[t].pc = "p_native"
    /\ \E status \in {0, 1} :
         th' = [th EXCEPT ![t] = AfterProcess(t, status = 0)]
    /\ UNCHANGED <<INSTANCES, handles, arcs, cons, freeCalls, builder, pool>>

\* image::ColorType, the colour types a DynamicImage can have
ColorTypes == {"L8", "La8", "Rgb8", "Rgba8", "L16", "La16", "Rgb16", "Rgba16",
               "Rgb32F", "Rgba32F"}

\* ColorType::bytes_per_pixel
bytes_per_pixel(color) ==
    CASE color = "L8"      -> 1
      [] color = "La8"     -> 2
      [] color = "Rgb8"    -> 3
      [] color = "Rgba8"   -> 4
      [] color = "L16"     -> 2
      [] color = "La16"    -> 4
      [] color = "Rgb16"   -> 6
      [] color = "Rgba16"  -> 8
      [] color = "Rgb32F"  -> 12
      [] color = "Rgba32F" -> 16

\* prepare_image: the colour type of the image it returns and the channel
\* count it returns with it
prepare_image(color) ==
    CASE bytes_per_pixel(color) = 1 -> [color |-> "Rgb8", channels |-> 3]
      [] bytes_per_pixel(color) = 2 -> [color |-> "Rgba8", channels |-> 4]
      [] OTHER -> [color |-> color, channels |-> bytes_per_pixel(color)]

\* widths and heights (u32) of the images given to process_image: small,
\* with an upscaled size in bytes that does not fit an i32 (wrapping to a
\* negative number, and to 0), empty, with an upscaled width that does not
\* fit an i32, and with a width above i32::MAX
ImageSizes ==
    {<<U32(0, 2), U32(0, 2)>>, <<U32(0, 30000), U32(0, 30000)>>,
     <<U32(0, 32768), U32(0, 32768)>>,
     <<U32(0, 0), U32(0, 2)>>, <<U32(0, 1073741824), U32(0, 1)>>,
     <<U32(1, 0), U32(0, 1)>>, <<U32(0, 1), U32(1, 5)>>}

\* images given to process_image: every size as RGB8, every colour type small
Images ==
    {[width |-> s[1], height |-> s[2], color |-> "Rgb8"] : s \in ImageSizes}
      \cup {[width |-> U32(0, 2), height |-> U32(0, 2), color |-> c] :
               c \in ColorTypes}

\* i32::try_from(u32): TRUE for Ok
FitsI32(x) == x.top = 0

\* create_output_buffer: the input's width and height times scale_factor
create_output_buffer(in_buffer, scale_factor) ==
    [w |-> WrappingMul(in_buffer.w, scale_factor),
     h |-> WrappingMul(in_buffer.h, scale_factor),
     c |-> in_buffer.c]

\* out_buffer.h * out_buffer.w * out_buffer.c
OutputLength(out) == WrappingMul(WrappingMul(out.h, out.w), out.c)

\* whether that product overflows on the way
OutputLengthOverflows(out) ==
    \/ MulOverflows(out.h, out.w)
    \/ MulOverflows(WrappingMul(out.h, out.w), out.c)

\* usize::try_from(length): TRUE for Ok
LengthConverts(length) == length >= 0

\* process_image on a given image: prepare_image, create_input_buffer (a
\* width or height above i32::MAX returns Err), create_output_buffer (a
\* product that overflows panics in a build with overflow checks and wraps
\* around in one without), then process is entered
ProcessImage(t, h, image) ==
    /\ th[t].pc = "idle"
    /\ Usable(h)
    /\ LET channels == prepare_image(image.color).channels
           scale_factor == handles[h].scale_factor
           in_buffer == [w |-> image.width.low, h |-> image.height.low,
                         c |-> channels]
       IN  \E checks \in BOOLEAN :
             th' = [th EXCEPT ![t] =
                IF ~FitsI32(image.width)
                  THEN [IdleThread EXCEPT !.pc = "q_ret", !.h = h,
                                          !.res = "err_width"]
                ELSE IF ~FitsI32(image.height)
                  THEN [IdleThread EXCEPT !.pc = "q_ret", !.h = h,
                                          !.res = "err_height"]
                ELSE IF checks /\ (MulOverflows(in_buffer.w, scale_factor)
                                     \/ MulOverflows(in_buffer.h, scale_factor))
                  THEN [IdleThread EXCEPT !.pc = "q_ret", !.h = h,
                                          !.inb = in_buffer,
                                          !.res = "panic_mul"]
                ELSE [IdleThread EXCEPT
                        !.pc = "q_load", !.h = h, !.color = image.color,
                        !.inb = in_buffer,
                        !.out = create_output_buffer(in_buffer, scale_factor)]]
    /\ UNCHANGED <<INSTANCES, handles, arcs, cons, freeCalls, builder, pool>>

\* process: the pointer is loaded; null returns Err
ProcessLoad(t) ==
    /\ th[t].pc = "q_load"
    /\ LET ptr == arcs[handles[th[t].h].arc].ptr IN
       th' = [th EXCEPT ![t] = IF ptr = Null
                                 THEN [@ EXCEPT !.pc = "q_ret", !.res = "err_null"]
                                 ELSE [@ EXCEPT !.pc = "q_native", !.ptr = ptr]]
    /\ UNCHANGED <<INSTANCES, handles, arcs, cons, freeCalls, builder, pool>>

\* a slip the status test could have: no early return
ProcessFailedNever(status) == FALSE

\* the decision of `if result != 0` in process
ProcessFailed(status) == status # 0

\* a slip the failure path could have: realcugan_free on the context
FreeCallsAfterFailureOnContext(ptr) == [freeCalls EXCEPT ![ptr] = @ + 1]

\* the calls of realcugan_free once the failure path of process has run: it
\* calls realcugan_free_image on the native result and nothing on the context
FreeCallsAfterFailure(ptr) == freeCalls

\* process: the native call (realcugan_process or realcugan_process_cpu)
\* returns a status; nonzero releases the native result and returns Err
ProcessNative(t) ==
    /\ th[t].pc = "q_native"
    /\ \E status \in {0, 1} :
         /\ th' = [th EXCEPT ![t] =
                  IF ProcessFailed(status)
                    THEN [@ EXCEPT !.pc = "q_ret", !.status = status,
                                   !.img = @ + 1, !.res = "err_status"]
                    ELSE [@ EXCEPT !.pc = "q_len", !.status = status]]
         /\ freeCalls' = IF ProcessFailed(status)
                           THEN FreeCallsAfterFailure(th[t].ptr)
                           ELSE freeCalls
    /\ UNCHANGED <<INSTANCES, handles, arcs, cons, builder, pool>>

\* process: the output length h * w * c is computed and converted to usize.
\* A product that overflows panics in a build with overflow checks and wraps
\* around in one without; a negative length makes try_from fail and `?`
\* returns the error.
ProcessLength(t) ==
    /\ th[t].pc = "q_len"
    /\ \E checks \in BOOLEAN :
         th' = [th EXCEPT ![t] =
                  IF checks /\ OutputLengthOverflows(th[t].out)
                    THEN [@ EXCEPT !.pc = "q_ret", !.res = "panic"]
                    ELSE IF LengthConverts(OutputLength(th[t].out))
                      THEN [@ EXCEPT !.pc = "q_copy",
                                     !.length = OutputLength(th[t].out)]
                      ELSE [@ EXCEPT !.pc = "q_ret", !.res = "err_length"]]
    /\ UNCHANGED <<INSTANCES, handles, arcs, cons, freeCalls, builder, pool>>

\* process: slice::from_raw_parts(out_buffer.data, length).to_vec()
ProcessCopy(t) ==
    /\ th[t].pc = "q_copy"
    /\ th' = [th EXCEPT ![t] = [@ EXCEPT !.pc = "q_free", !.copied = TRUE]]
    /\ UNCHANGED <<INSTANCES, handles, arcs, cons, freeCalls, builder, pool>>

\* process: realcugan_free_image(mat_ptr)
ProcessFreeImage(t) ==
    /\ th[t].pc = "q_free"
    /\ th' = [th EXCEPT ![t] = [@ EXCEPT !.pc = "q_conv", !.img = @ + 1]]
    /\ UNCHANGED <<INSTANCES, handles, arcs, cons, freeCalls, builder, pool>>

\* process: convert_image; from_raw yields None when the copied bytes are
\* fewer than the image needs, which happens when the length wrapped around
ProcessConvert(t) ==
    /\ th[t].pc = "q_conv"
    /\ th' = [th EXCEPT ![t] =
                [@ EXCEPT !.pc = "q_ret",
                          !.res = IF th[t].out.c \in 1 .. 4
                                       /\ ~OutputLengthOverflows(th[t].out)
                                    THEN "ok" ELSE "err_convert"]]
    /\ UNCHANGED <<INSTANCES, handles, arcs, cons, freeCalls, builder, pool>>

\* process has returned (or unwound) to the caller of process_image
ProcessEnd(t) ==
    /\ th[t].pc = "q_ret"
    /\ th' = [th EXCEPT ![t] = IdleThread]
    /\ UNCHANGED <<INSTANCES, handles, arcs, cons, freeCalls, builder, pool>>

\* drop is entered and reads Arc::strong_count
DropEnter(t, h, unwinding) ==
    /\ handles' = [handles EXCEPT ![h].st = "dropping"]
    /\ th' = [th EXCEPT ![t] =
                [IdleThread EXCEPT !.h = h,
                                   !.unwinding = unwinding,
                                   !.pc = IF DropIsLast(arcs[handles[h].arc].strong)
                                            THEN "d_free" ELSE "d_arc"]]
    /\ UNCHANGED <<INSTANCES, arcs, cons, freeCalls, builder, pool>>

\* the owner of a value drops it
DropCount(t, h) ==
    /\ th[t].pc = "idle"
    /\ Usable(h)
    /\ ~Borrowed(h)
    /\ DropEnter(t, h, FALSE)

\* the closure ends (or unwinds) and its clone is dropped
WorkerDrop(t) ==
    /\ th[t].pc = "w_hold"
    /\ DropEnter(t, th[t].h, th[t].unwinding)

\* the test's main thread drops the value that new returned
DropOriginal(t, h) ==
    /\ ~handles[h].is_clone
    /\ DropCount(t, h)

\* drop: the pointer is loaded and, unless null, realcugan_free is called
DropFree(t) ==
    /\ th[t].pc = "d_free"
    /\ LET ptr == arcs[handles[th[t].h].arc].ptr IN
       freeCalls' = IF ptr # Null THEN [freeCalls EXCEPT ![ptr] = @ + 1]
                                  ELSE freeCalls
    /\ th' = [th EXCEPT ![t] = [@ EXCEPT !.pc = "d_sub"]]
    /\ UNCHANGED <<INSTANCES, handles, arcs, cons, builder, pool>>

\* drop: INSTANCES.fetch_sub(1)
DropSub(t) ==
    /\ th[t].pc = "d_sub"
    /\ INSTANCES' = U8Dec(INSTANCES)
    /\ th' = [th EXCEPT ![t] = [@ EXCEPT !.pc = IF DropTearsDown(INSTANCES)
                                                  THEN "d_destroy" ELSE "d_arc"]]
    /\ UNCHANGED <<handles, arcs, cons, freeCalls, builder, pool>>

\* drop: realcugan_destroy_gpu_instance
DropDestroy(t) ==
    /\ th[t].pc = "d_destroy"
    /\ th' = [th EXCEPT ![t] = [@ EXCEPT !.pc = "d_arc"]]
    /\ UNCHANGED <<INSTANCES, handles, arcs, cons, freeCalls, builder, pool>>

\* after drop's body the field is dropped: the Arc's own decrement
DropArc(t) ==
    /\ th[t].pc = "d_arc"
    /\ LET h == th[t].h IN
       /\ arcs' = [arcs EXCEPT ![handles[h].arc].strong = @ - 1]
       /\ handles' = [handles EXCEPT ![h].st = "dropped"]
    /\ th' = [th EXCEPT ![t] = IF th[t].unwinding
                                 THEN [IdleThread EXCEPT !.pc = "panicked"]
                                 ELSE IdleThread]
    /\ UNCHANGED <<INSTANCES, cons, freeCalls, builder, pool>>

--------------------------------------------------------------------------
(* Builder, src/src/rs/builder.rs *)

\* device indexes asked of Builder::gpu: 0, 1, 99, 2^31, 2^32 - 2, 2^32 - 1
GpuRequests == {U32(0, 0), U32(0, 1), U32(0, 99),
                U32(1, 0), U32(1, 2147483646), U32(1, 2147483647)}

\* Builder::new
BuilderNew ==
    /\ th[Main].pc = "idle"
    /\ builder' = BuilderDefault
    /\ UNCHANGED <<INSTANCES, handles, arcs, cons, freeCalls, th, pool>>

\* Builder::gpu
BuilderGpu(g) ==
    /\ th[Main].pc = "idle"
    /\ builder' = [builder EXCEPT !.gpu = AsI32(g), !.via = "gpu", !.req = g,
                                  !.builds = 0]
    /\ UNCHANGED <<INSTANCES, handles, arcs, cons, freeCalls, th, pool>>

\* Builder::cpu
BuilderCpu ==
    /\ th[Main].pc = "idle"
    /\ builder' = [builder EXCEPT !.gpu = -1, !.via = "cpu", !.req = U32(0, 0),
                                  !.builds = 0]
    /\ UNCHANGED <<INSTANCES, handles, arcs, cons, freeCalls, th, pool>>

\* Builder::scale
BuilderScale(scale) ==
    /\ th[Main].pc = "idle"
    /\ builder' = [builder EXCEPT !.scale = scale, !.builds = 0]
    /\ UNCHANGED <<INSTANCES, handles, arcs, cons, freeCalls, th, pool>>

\* parameter file names: up2x-conservative, up4x-denoise3x, up3x-no-denoise
FileNames == {[scale |-> 2, noise |-> -1], [scale |-> 4, noise |-> 3],
              [scale |-> 3, noise |-> 0]}

\* Builder::model_files; of the two paths the model keeps what the name of
\* the parameter file says and whether std::fs::read will succeed on them
BuilderModelFiles(name, readable) ==
    /\ th[Main].pc = "idle"
    /\ builder' = [builder EXCEPT !.files = IF readable THEN "readable"
                                                        ELSE "unreadable",
                                  !.name = name, !.source = "files",
                                  !.builds = 0]
    /\ UNCHANGED <<INSTANCES, handles, arcs, cons, freeCalls, th, pool>>

\* tile sizes asked of Builder::tile_size: 0, 128, 2^31
TileRequests == {U32(0, 0), U32(0, 128), U32(1, 0)}

\* Builder::tile_size
BuilderTileSize(tile_size) ==
    /\ th[Main].pc = "idle"
    /\ builder' = [builder EXCEPT !.tile_size = AsI32(tile_size), !.builds = 0]
    /\ UNCHANGED <<INSTANCES, handles, arcs, cons, freeCalls, th, pool>>

\* enum SyncGap and the level Builder::sync_gap stores for each variant
SyncGap == {"Disabled", "Loose", "Moderate", "Strict"}

SyncGapLevel(sync_gap) ==
    CASE sync_gap = "Disabled" -> 0
      [] sync_gap = "Loose"    -> 1
      [] sync_gap = "Moderate" -> 2
      [] sync_gap = "Strict"   -> 3

\* Builder::sync_gap
BuilderSyncGap(sync_gap) ==
    /\ th[Main].pc = "idle"
    /\ builder' = [builder EXCEPT !.sync_gap = SyncGapLevel(sync_gap),
                                  !.builds = 0]
    /\ UNCHANGED <<INSTANCES, handles, arcs, cons, freeCalls, th, pool>>

NoiseInputs == {-1, 0, 3, 7}

\* Builder::noise
BuilderNoise(noise) ==
    /\ th[Main].pc = "idle"
    /\ builder' = [builder EXCEPT !.noise = noise, !.builds = 0]
    /\ UNCHANGED <<INSTANCES, handles, arcs, cons, freeCalls, th, pool>>

\* Builder::model_bytes; of each slice the model keeps whether it is empty
BuilderModelBytes(param, bin) ==
    /\ th[Main].pc = "idle"
    /\ builder' = [builder EXCEPT !.param = param, !.bin = bin,
                                  !.files = "none", !.name = NoName,
                                  !.source = "bytes",
                                  !.builds = 0]
    /\ UNCHANGED <<INSTANCES, handles, arcs, cons, freeCalls, th, pool>>

\* Builder::model: model_parameters is replaced by the preset's constant
BuilderModel(model) ==
    /\ th[Main].pc = "idle"
    /\ builder' = [builder EXCEPT !.files = "none", !.name = NoName,
                                  !.param = model.param, !.bin = model.bin,
                                  !.scale = model.scale, !.noise = model.noise,
                                  !.allow_sync_gap = model.allow_sync_gap,
                                  !.preset = model.family, !.source = "preset",
                                  !.builds = 0]
    /\ UNCHANGED <<INSTANCES, handles, arcs, cons, freeCalls, th, pool>>

\* Builder::get_bytes: TRUE for Ok
get_bytes_ok == builder.files # "unreadable"

\* Builder::get_bytes, the bytes it yields: those read from the files, or
\* the builder's param and bin
get_bytes ==
    IF builder.files # "none" THEN "set"
    ELSE IF builder.param = "empty" \/ builder.bin = "empty" THEN "empty"
    ELSE "set"

\* a slip build could have: the configured level is passed whatever the model
SyncGapConfigured(b) == b.sync_gap

\* the sync_gap build passes to new
SyncGapResolve(b) == IF b.allow_sync_gap THEN b.sync_gap ELSE 0

\* Builder::build: get_bytes, then RealCugan::new on the builder's fields;
\* build borrows the builder and leaves its fields as they were
Build(t) ==
    /\ builder' = [builder EXCEPT !.builds = IF @ < 2 THEN @ + 1 ELSE @]
    /\ IF get_bytes_ok
         THEN NewEnter(t, [gpu |-> builder.gpu, scale |-> builder.scale,
                           noise |-> builder.noise,
                           sync_gap |-> SyncGapResolve(builder),
                           tile_size |-> builder.tile_size,
                           bytes |-> get_bytes,
                           via |-> builder.via, req |-> builder.req],
                       HeapBudgets)
         ELSE /\ th[t].pc = "idle"
              /\ UNCHANGED <<INSTANCES, handles, arcs, cons, freeCalls, th, pool>>

--------------------------------------------------------------------------
(* The revision src/src/lib.rs: new, clone and drop over ref_count *)

\* the decision of `if clones == 1` in drop
LibDropFrees(clones) == clones = 1

\* new: validate_gpu's comparison and calculate_prepadding
LibNewStart(t) ==
    /\ th[t].pc = "idle"
    /\ \E gpu \in GpuInputs, scale \in ScaleInputs :
         LET a == NewArgs(gpu, scale) IN
         IF ~GpuAccepted(gpu)
           THEN th' = [th EXCEPT ![t] = [IdleThread EXCEPT !.pc = "l_destroy"]]
           ELSE IF calculate_prepadding(scale) = 0
             THEN th' = [th EXCEPT ![t] = [IdleThread EXCEPT !.pc = "bad_scale"]]
             ELSE /\ FreeIds > Reserved
                  /\ FreeSlots > Reserved
                  /\ th' = [th EXCEPT ![t] = [IdleThread EXCEPT !.pc = "l_init",
                                                                !.args = a]]
    /\ UNCHANGED <<INSTANCES, handles, arcs, cons, freeCalls, builder, pool>>

\* validate_gpu, device rejected: realcugan_destroy_gpu_instance, then Err
LibValidateDestroy(t) ==
    /\ th[t].pc = "l_destroy"
    /\ th' = [th EXCEPT ![t] = IdleThread]
    /\ UNCHANGED <<INSTANCES, handles, arcs, cons, freeCalls, builder, pool>>

\* realcugan_init
LibInit(t) ==
    /\ th[t].pc = "l_init"
    /\ \E isnull \in BOOLEAN :
         LET k == FreshId IN
         /\ cons' = [cons EXCEPT ![k] = IF isnull THEN "null" ELSE "building"]
         /\ th' = [th EXCEPT ![t] = [@ EXCEPT !.pc = "l_load", !.k = k,
                                              !.ptr = IF isnull THEN Null ELSE k]]
    /\ UNCHANGED <<INSTANCES, handles, arcs, freeCalls, builder, pool>>

\* load_model: realcugan_load_files reports zero or not; on nonzero `?`
\* returns the error
LibLoad(t) ==
    /\ th[t].pc = "l_load"
    /\ \E outcome \in {"nonzero", "zero"} :
         IF outcome = "zero"
           THEN /\ th' = [th EXCEPT ![t] = [@ EXCEPT !.pc = "l_setp"]]
                /\ UNCHANGED cons
           ELSE /\ th' = [th EXCEPT ![t] = IdleThread]
                /\ cons' = [cons EXCEPT ![th[t].k] =
                              IF th[t].ptr = Null THEN @ ELSE "failed"]
    /\ UNCHANGED <<INSTANCES, handles, arcs, freeCalls, builder, pool>>

\* realcugan_set_parameters, then Ok(Self { .., ref_count: AtomicU8::new(0) })
LibFinish(t) ==
    /\ th[t].pc = "l_setp"
    /\ LET k == th[t].k
           h == FreshHandle
       IN
       /\ arcs' = [arcs EXCEPT ![k] = [ptr |-> th[t].ptr, strong |-> 1,
                                       ref_count |-> 0]]
       /\ handles' = [handles EXCEPT ![h] =
                        [st |-> "live", arc |-> k,
                         scale_factor |-> th[t].args.scale,
                         use_cpu |-> (th[t].args.gpu = CpuSentinel),
                         is_clone |-> FALSE]]
       /\ cons' = [cons EXCEPT ![k] = IF @ = "null" THEN @ ELSE "built"]
    /\ th' = [th EXCEPT ![t] = IdleThread]
    /\ UNCHANGED <<INSTANCES, freeCalls, builder, pool>>

\* clone: ref_count.fetch_add(1), then both Arcs are cloned
LibClone(t, h) ==
    /\ th[t].pc = "idle"
    /\ Usable(h)
    /\ FreeSlots > Reserved
    /\ LET n == FreshHandle
           k == handles[h].arc
       IN
       /\ arcs' = [arcs EXCEPT ![k].ref_count = U8Inc(@), ![k].strong = @ + 1]
       /\ handles' = [handles EXCEPT ![n] = [handles[h] EXCEPT !.is_clone = TRUE]]
    /\ UNCHANGED <<INSTANCES, cons, freeCalls, th, builder, pool>>

\* drop: ref_count.fetch_sub(1)
LibDropSub(t, h) ==
    /\ th[t].pc = "idle"
    /\ Usable(h)
    /\ ~Borrowed(h)
    /\ LET k == handles[h].arc IN
       /\ arcs' = [arcs EXCEPT ![k].ref_count = U8Dec(@)]
       /\ th' = [th EXCEPT ![t] =
                   [IdleThread EXCEPT !.h = h,
                                      !.pc = IF LibDropFrees(arcs[k].ref_count)
                                               THEN "l_free" ELSE "d_arc"]]
    /\ handles' = [handles EXCEPT ![h].st = "dropping"]
    /\ UNCHANGED <<INSTANCES, cons, freeCalls, builder, pool>>

\* drop: the pointer is loaded and realcugan_free is called on it
LibDropFree(t) ==
    /\ th[t].pc = "l_free"
    /\ LET ptr == arcs[handles[th[t].h].arc].ptr IN
       freeCalls' = IF ptr # Null THEN [freeCalls EXCEPT ![ptr] = @ + 1]
                                  ELSE freeCalls
    /\ th' = [th EXCEPT ![t] = [@ EXCEPT !.pc = "d_arc"]]
    /\ UNCHANGED <<INSTANCES, handles, arcs, cons, builder, pool>>

--------------------------------------------------------------------------
(* Specifications *)

\* RealCugan::new once the device and the scale are accepted
NewBody(t) ==
    \/ NewInit(t)
    \/ NewLoad(t)
    \/ NewSetParameters(t)
    \/ NewIncr(t)

\* RealCugan::new from its first step to its last
NewSteps(t) ==
    \/ ValidateLoad(t)
    \/ ValidateDestroy(t)
    \/ NewBadScale(t)
    \/ NewInit(t)
    \/ NewLoad(t)
    \/ NewSetParameters(t)
    \/ NewIncr(t)

\* drop after its first step
DropSteps(t) ==
    \/ DropFree(t)
    \/ DropSub(t)
    \/ DropDestroy(t)
    \/ DropArc(t)

Step(t) ==
    \/ NewStart(t)
    \/ NewSteps(t)
    \/ \E h \in Handles : Clone(t, h)
    \/ \E h \in Handles : ProcessStart(t, h)
    \/ ProcessCall(t)
    \/ ProcessReturn(t)
    \/ \E h \in Handles : DropCount(t, h)
    \/ DropSteps(t)

\* operations of different threads interleave
Next == \E t \in Threads : Step(t)
Spec == Init /\ [][Next]_vars

\* one caller: every operation runs to its end before the next begins
SeqNext == \E t \in SeqThreads : Step(t)
SpecSeq == Init /\ [][SeqNext]_vars

\* the test `threads` (src/tests/test.rs): the main thread constructs and
\* clones, each clone is moved to a spawned thread that processes an image
\* and drops it; the main thread drops the original at any time
ThreadsNext ==
    \/ NewStart(Main)
    \/ NewSteps(Main)
    \/ \E h \in Handles : Clone(Main, h)
    \/ \E h \in Handles : DropOriginal(Main, h)
    \/ \E t \in Workers :
         \/ \E h \in Handles : WorkerStart(t, h)
         \/ ProcessCall(t)
         \/ ProcessReturn(t)
         \/ WorkerDrop(t)
    \/ \E t \in Threads : DropSteps(t)
SpecThreads == Init /\ [][ThreadsNext]_vars

\* one caller configuring a Builder, building with it and dropping
BuildNext ==
    \/ BuilderNew
    \/ \E g \in GpuRequests : BuilderGpu(g)
    \/ BuilderCpu
    \/ \E scale \in ScaleInputs : BuilderScale(scale)
    \/ \E name \in FileNames, readable \in BOOLEAN : BuilderModelFiles(name, readable)
    \/ Build(Main)
    \/ NewSteps(Main)
    \/ \E h \in Handles : DropCount(Main, h)
    \/ DropSteps(Main)
SpecBuild == Init /\ [][BuildNext]_vars

\* one caller choosing a model source and a sync-gap level and building
SyncGapNext ==
    \/ BuilderNew
    \/ \E sync_gap \in SyncGap : BuilderSyncGap(sync_gap)
    \/ \E model \in Models : BuilderModel(model)
    \/ BuilderModelBytes("set", "set")
    \/ \E name \in FileNames : BuilderModelFiles(name, TRUE)
    \/ Build(Main)
    \/ NewBody(Main)
SpecSyncGap == Init /\ [][SyncGapNext]_vars

\* one caller giving model files or bytes, a scale, a noise level and a tile
\* size and building
ConfigNext ==
    \/ BuilderNew
    \/ \E param \in {"empty", "set"}, bin \in {"empty", "set"} :
         BuilderModelBytes(param, bin)
    \/ \E name \in FileNames : BuilderModelFiles(name, TRUE)
    \/ \E scale \in ScaleInputs : BuilderScale(scale)
    \/ \E noise \in NoiseInputs : BuilderNoise(noise)
    \/ \E tile_size \in TileRequests : BuilderTileSize(tile_size)
    \/ Build(Main)
    \/ NewBadScale(Main)
    \/ NewBody(Main)
SpecConfig == Init /\ [][ConfigNext]_vars

\* values given to RealCugan::new by a caller that does not go through
\* the Builder
ScaleValues == {2, 3, 4, 5, 1, 0, -1, MaxI32, MinI32}
TileSizeInputs == {0, 128, -5}

\* a direct call of RealCugan::new with any scale, noise and tile size
NewCall(t) ==
    \E gpu \in {CpuSentinel, 0}, scale \in ScaleValues,
       noise \in NoiseInputs, tile_size \in TileSizeInputs :
        /\ NewEnter(t, [NewArgs(gpu, scale) EXCEPT !.noise = noise,
                                                  !.tile_size = tile_size],
                    AllHeapBudgets)
        /\ UNCHANGED builder

\* one caller of RealCugan::new
DirectNext ==
    \/ NewCall(Main)
    \/ NewBadScale(Main)
    \/ NewBody(Main)
    \/ \E h \in Handles : DropCount(Main, h)
    \/ DropSteps(Main)
SpecNew == Init /\ [][DirectNext]_vars

\* one caller of the src/src/lib.rs revision
LibNext ==
    \/ LibNewStart(Main)
    \/ LibValidateDestroy(Main)
    \/ NewBadScale(Main)
    \/ LibInit(Main)
    \/ LibLoad(Main)
    \/ LibFinish(Main)
    \/ \E h \in Handles : LibClone(Main, h)
    \/ \E h \in Handles : LibDropSub(Main, h)
    \/ LibDropFree(Main)
    \/ DropArc(Main)
SpecLib == Init /\ [][LibNext]_vars

\* process, each of its steps on its own
ProcessSteps(t) ==
    \/ ProcessLoad(t)
    \/ ProcessNative(t)
    \/ ProcessLength(t)
    \/ ProcessCopy(t)
    \/ ProcessFreeImage(t)
    \/ ProcessConvert(t)
    \/ ProcessEnd(t)

\* one caller constructing handles and processing images with them
ProcessNext ==
    \/ NewStart(Main)
    \/ NewSteps(Main)
    \/ \E h \in Handles : Clone(Main, h)
    \/ \E h \in Handles, image \in Images : ProcessImage(Main, h, image)
    \/ ProcessSteps(Main)
    \/ \E h \in Handles : DropCount(Main, h)
    \/ DropSteps(Main)
SpecProcess == Init /\ [][ProcessNext]_vars

\* A caller that keeps many handles at once.  The contexts of the pool are
\* built and dropped one handle each, a whole call at a time.

\* RealCugan::new from its entry to Ok, for a handle that joins the pool:
\* the device and the scale are valid, the model loads, fetch_add runs
PoolNew(t) ==
    /\ th[t].pc = "idle"
    /\ pool < MaxPool
    /\ pool' = pool + 1
    /\ INSTANCES' = U8Inc(INSTANCES)
    /\ UNCHANGED <<handles, arcs, cons, freeCalls, th, builder>>

\* drop of a handle of the pool: it is the only one on its Arc, so
\* realcugan_free and fetch_sub run, and the teardown when fetch_sub read 1
PoolDrop(t) ==
    /\ th[t].pc = "idle"
    /\ pool > 0
    /\ pool' = pool - 1
    /\ INSTANCES' = U8Dec(INSTANCES)
    /\ th' = [th EXCEPT ![t] = IF DropTearsDown(INSTANCES)
                                 THEN [IdleThread EXCEPT !.pc = "m_destroy"]
                                 ELSE IdleThread]
    /\ UNCHANGED <<handles, arcs, cons, freeCalls, builder>>

\* that drop's realcugan_destroy_gpu_instance
PoolDestroy(t) ==
    /\ th[t].pc = "m_destroy"
    /\ th' = [th EXCEPT ![t] = IdleThread]
    /\ UNCHANGED <<INSTANCES, handles, arcs, cons, freeCalls, builder, pool>>

\* one caller holding up to MaxPool contexts besides the one it follows
ManyNext ==
    \/ PoolNew(Main)
    \/ PoolDrop(Main)
    \/ PoolDestroy(Main)
    \/ NewStart(Main)
    \/ NewSteps(Main)
    \/ \E h \in Handles : DropCount(Main, h)
    \/ DropSteps(Main)
SpecMany == Init /\ [][ManyNext]_vars

--------------------------------------------------------------------------
(* Properties *)

\* the values that share the Arc of construction k
HandlesOf(k) == {h \in Handles : handles[h].st # "none" /\ handles[h].arc = k}

\* those of them nobody has begun to drop
LiveOf(k) == {h \in HandlesOf(k) : handles[h].st = "live"}

\* construction k returned a value and every value sharing it has been dropped
AllDropped(k) ==
    /\ HandlesOf(k) # {}
    /\ \A h \in HandlesOf(k) : handles[h].st = "dropped"

\* realcugan_free was not called on context k while a value sharing it was
\* live, and was called once when all of them have been dropped
FreedByLastDropOnly(k) ==
    /\ LiveOf(k) # {} => freeCalls[k] = 0
    /\ AllDropped(k) => freeCalls[k] = 1

\* C1: a handle and its clones dropped one at a time, in any order: no
\* realcugan_free on the context while a handle sharing it remains, and
\* exactly one once the last of them has been dropped.
C1_SequentialDropsFreeOnce ==
    \A k \in Ctxs : cons[k] = "built" => FreedByLastDropOnly(k)

\* C1's case: a handle and at least one clone, all dropped, the context freed
C1_Witness ==
    \E k \in Ctxs :
        /\ cons[k] = "built"
        /\ Cardinality(HandlesOf(k)) >= 2
        /\ AllDropped(k)
        /\ freeCalls[k] = 1

\* C2: with clone, process and drop of different threads interleaved,
\* realcugan_free is called on a context at most once, and once it has been
\* called no handle sharing the context is live, none but the one whose drop
\* called it is still being dropped, and no native process call on the
\* context is in flight.
C2_NoUseAfterFreeNoDoubleFree ==
    \A k \in Ctxs :
        /\ freeCalls[k] <= 1
        /\ freeCalls[k] >= 1 =>
             /\ LiveOf(k) = {}
             /\ Cardinality({h \in HandlesOf(k) : handles[h].st # "dropped"}) <= 1
             /\ \A t \in Threads : ~(th[t].pc = "p_native" /\ th[t].ptr = k)

\* C2's case: a context shared by several handles has just been freed by one
\* thread's drop
C2_Witness ==
    \E k \in Ctxs, t \in Threads :
        /\ Cardinality(HandlesOf(k)) >= 2
        /\ freeCalls[k] = 1
        /\ th[t].pc = "d_sub"
        /\ handles[th[t].h].arc = k

\* C3: two or more handles sharing one context, dropped by different threads
\* at the same time: once all have been dropped realcugan_free has been
\* called on the context exactly once.  (Drops that do not overlap satisfy
\* this, by C1; a state that violates it comes from overlapping drops.)
C3_ConcurrentDropsFreeOnce ==
    \A k \in Ctxs :
        (cons[k] = "built" /\ Cardinality(HandlesOf(k)) >= 2 /\ AllDropped(k))
            => freeCalls[k] = 1

\* C4: in the src/src/lib.rs revision a handle cloned N times has its context
\* freed exactly once, by the drop of the last of the N + 1 handles and by no
\* earlier one; a handle never cloned frees its context when dropped.
C4_RefCountFreesOnLastDrop ==
    \A k \in Ctxs :
        cons[k] = "built" =>
            LET remaining == {h \in HandlesOf(k) : handles[h].st # "dropped"} IN
            /\ Cardinality(remaining) >= 2 => freeCalls[k] = 0
            /\ freeCalls[k] <= 1
            /\ AllDropped(k) => freeCalls[k] = 1

\* C5: one successful construction, K clones each processing an image in a
\* spawned thread and then dropped, the original dropped too, the drops
\* possibly at the same time: INSTANCES is 0 once all are dropped.
C5_InstancesZeroAfterThreads ==
    ( /\ \A t \in Threads : th[t].pc = "idle"
      /\ Cardinality({k \in Ctxs : HandlesOf(k) # {}}) = 1
      /\ \A h \in Handles : handles[h].st \in {"none", "dropped"} )
        => INSTANCES = 0

\* the constructions in GPU mode with a value not yet dropped
LiveGpuContexts ==
    {k \in Ctxs : \E h \in HandlesOf(k) :
                      handles[h].st # "dropped" /\ ~handles[h].use_cpu}

\* C6: between the operations of one caller INSTANCES is the number of live
\* GPU-mode contexts; a CPU-mode build does not increment it and the final
\* drop of a CPU-mode handle does not reach realcugan_destroy_gpu_instance.
C6_InstancesCountsGpuContexts ==
    /\ th[Main].pc = "idle" => INSTANCES = Cardinality(LiveGpuContexts)
    /\ \A t \in Threads : th[t].pc = "d_destroy" => ~handles[th[t].h].use_cpu

\* a step that calls realcugan_destroy_gpu_instance
DestroyStep ==
    \E t \in Threads : th[t].pc \in {"v_destroy", "d_destroy"} /\ th'[t].pc # th[t].pc

\* a GPU-mode construction has passed validate_gpu and has not returned, or
\* the handle one returned has not been dropped
GpuInUse ==
    \/ \E t \in Threads : th[t].pc \in {"init", "load", "setp", "incr"}
                             /\ th[t].args.gpu \in 0 .. (DeviceCount - 1)
    \/ \E h \in Handles : handles[h].st = "live" /\ ~handles[h].use_cpu

\* C7: realcugan_destroy_gpu_instance is not called between the moment a
\* GPU-mode construction passes validate_gpu and the final drop of the handle
\* it returns, whatever another thread does meanwhile.
C7_NoTeardownDuringGpuUse == [][DestroyStep => ~GpuInUse]_vars

\* C8: a device index g >= device_count asked through Builder::gpu, and an
\* index given to RealCugan::new that is neither -1 nor in [0, device_count),
\* never get past validate_gpu to realcugan_init.
C8_OutOfRangeDeviceRejected ==
    \A t \in Threads :
        th[t].pc \in {"init", "load", "setp", "incr"} =>
            /\ th[t].args.via = "gpu" => ~U32AtLeast(th[t].args.req, DeviceCount)
            /\ \/ th[t].args.gpu = CpuSentinel
               \/ (0 <= th[t].args.gpu /\ th[t].args.gpu < DeviceCount)

\* C9: when a construction fails device validation,
\* realcugan_destroy_gpu_instance is called if and only if no GPU-mode handle
\* is live; a live CPU-mode handle does not prevent it.
C9_TeardownIffNoGpuHandle ==
    [][\A t \in Threads :
          (th[t].pc = "v_load" /\ th'[t].pc # "v_load") =>
              (th'[t].pc = "v_destroy"
                  <=> ~\E h \in Handles : handles[h].st = "live"
                                             /\ ~handles[h].use_cpu)]_vars

\* C10: a context that realcugan_init returned and whose model failed to load
\* has been released by realcugan_free when new returns the error.
C10_FailedLoadReleasesContext ==
    \A k \in Ctxs : cons[k] = "failed" => freeCalls[k] = 1


\* C11: whenever the native processing call was made, realcugan_free_image
\* has been called exactly once when process returns, and on the success
\* path not before the output bytes were copied.
C11_ResultReleasedOnEveryPath ==
    \A t \in Threads :
        /\ (th[t].pc = "q_ret"
              /\ th[t].res \notin {"err_width", "err_height", "panic_mul",
                                   "err_null", "panic"})
               => th[t].img = 1
        /\ (th[t].status = 0 /\ th[t].img >= 1) => th[t].copied

\* C12: when the native processing call returned a nonzero status, process
\* returns an error having called realcugan_free_image exactly once and
\* without having read the output buffer.
C12_NativeFailureReleasesWithoutCopy ==
    \A t \in Threads :
        (th[t].pc = "q_ret" /\ th[t].status # 0) =>
            /\ th[t].img = 1
            /\ ~th[t].copied
            /\ th[t].res = "err_status"

\* C12's case: the native call failed and process has returned
C12_Witness ==
    \E t \in Threads :
        th[t].pc = "q_ret" /\ th[t].status # 0 /\ th[t].res = "err_status"


\* C13: a null context returned by realcugan_init is never handed to a
\* native function: no construction goes on to realcugan_set_parameters
\* with it (realcugan_load_files having been called on it), no handle holds
\* it, and no process or drop passes it to the engine.
C13_NullContextNeverUsed ==
    /\ \A t \in Threads :
          /\ th[t].pc \in {"setp", "incr"} => th[t].ptr # Null
          /\ th[t].pc \in {"p_native", "q_native"} => th[t].ptr # Null
    /\ \A h \in Handles :
          handles[h].st # "none" => arcs[handles[h].arc].ptr # Null


\* C14: build is called on a Builder value at most once: a value it has been
\* called on cannot be built again.
C14_BuildConsumesBuilder == builder.builds <= 1


\* C15: at the call of realcugan_set_parameters of a build, the sync gap
\* passed is 0 when the model is a preset of the SE family, whatever level
\* was configured and whether before or after the preset was chosen; it is
\* the configured level when the model is a Pro or Nose preset, or explicit
\* bytes or files with no preset chosen.
C15_SyncGapForcedForSeOnly ==
    \A t \in Threads :
        th[t].pc = "setp" =>
            /\ (builder.source = "preset" /\ builder.preset = "se")
                   => SetParametersCall(t).sync_gap = 0
            /\ ( \/ builder.source = "preset" /\ builder.preset \in {"pro", "nose"}
                 \/ builder.source \in {"bytes", "files"} /\ builder.preset = "none" )
                   => SetParametersCall(t).sync_gap = builder.sync_gap

\* C15's case: an SE preset built with a nonzero level configured
C15_Witness ==
    \E t \in Threads :
        /\ th[t].pc = "setp"
        /\ builder.source = "preset" /\ builder.preset = "se"
        /\ builder.sync_gap = 2
        /\ SetParametersCall(t).sync_gap = 0


\* C16: when the model was given by model_files, the scale and noise passed
\* to realcugan_set_parameters are those the parameter file's name says.
C16_FileNameDecidesScaleAndNoise ==
    \A t \in Threads :
        (th[t].pc = "setp" /\ builder.source = "files") =>
            /\ SetParametersCall(t).scale = builder.name.scale
            /\ SetParametersCall(t).noise = builder.name.noise

\* C17: realcugan_init is called by a build only when the parameter bytes
\* and the weight bytes the builder resolved are both non-empty.
C17_InitOnlyWithModelBytes ==
    \A t \in Threads :
        th[t].pc \in {"load", "setp", "incr"} => th[t].args.bytes = "set"

\* C18: the noise level passed to realcugan_set_parameters is one of
\* -1, 0, 1, 2, 3.
C18_NoiseInRange ==
    \A t \in Threads :
        th[t].pc = "setp" => SetParametersCall(t).noise \in -1 .. 3

\* C19: new goes on to realcugan_init only with scale 2, 3 or 4, its
\* prepadding then being 18, 14 or 19; every other scale is an error.
C19_PrepaddingByScale ==
    \A t \in Threads :
        th[t].pc \in {"init", "load", "setp", "incr"} =>
            \/ th[t].args.scale = 2 /\ th[t].prepading = 18
            \/ th[t].args.scale = 3 /\ th[t].prepading = 14
            \/ th[t].args.scale = 4 /\ th[t].prepading = 19

\* C19's case: a construction with scale 4 at realcugan_set_parameters
C19_Witness ==
    \E t \in Threads :
        th[t].pc = "setp" /\ th[t].args.scale = 4
                          /\ SetParametersCall(t).prepadding = 19

TableSize(scale, budget) ==
    LET exceeds(n) == budget.top = 1 \/ budget.low > n
    IN  CASE scale = 2 -> IF exceeds(1300) THEN 400 ELSE IF exceeds(800) THEN 300
                          ELSE IF exceeds(200) THEN 100 ELSE 32
          [] scale = 3 -> IF exceeds(3300) THEN 400 ELSE IF exceeds(1900) THEN 300
                          ELSE IF exceeds(950) THEN 200
                          ELSE IF exceeds(320) THEN 100 ELSE 32
          [] scale = 4 -> IF exceeds(1690) THEN 400 ELSE IF exceeds(980) THEN 300
                          ELSE IF exceeds(530) THEN 200
                          ELSE IF exceeds(240) THEN 100 ELSE 32
          [] OTHER     -> 32

\* C21: with a requested tile size of 0, the tile size is 400 on the CPU
\* sentinel and, on a GPU, the size of the first table entry whose threshold
\* the reported heap budget (an unsigned 32-bit value) strictly exceeds, 32
\* when none is exceeded
C21_TileSizeFromHeapBudget ==
    \A t \in Threads :
        (th[t].pc \in {"init", "load", "setp", "incr"} /\ th[t].args.tile_size = 0)
          => th[t].tile = IF th[t].args.gpu = CpuSentinel THEN 400
                          ELSE TableSize(th[t].args.scale, th[t].heap)


\* the engine is handed the buffers: process is at its native call
AtNativeCall(t) == th[t].pc = "q_native"

\* out = in * scale over the integers, told without multiplying
ExactlyScaled(out, in, scale) == out % scale = 0 /\ out \div scale = in

\* C22: for every input width and height and every scale, process_image
\* either returns an error before any native call or hands the engine an
\* output buffer whose width and height are exactly the input's times the
\* scale factor, both strictly larger than the input's
C22_OutputIsInputTimesScale ==
    \A t \in Threads :
        /\ th[t].res # "panic_mul"
        /\ AtNativeCall(t) =>
              LET scale == handles[th[t].h].scale_factor IN
              /\ ExactlyScaled(th[t].out.w, th[t].inb.w, scale)
              /\ ExactlyScaled(th[t].out.h, th[t].inb.h, scale)
              /\ th[t].out.w > th[t].inb.w
              /\ th[t].out.h > th[t].inb.h


\* the number of channels of a colour type
ChannelCount(color) ==
    CASE color \in {"L8", "L16"} -> 1
      [] color \in {"La8", "La16"} -> 2
      [] color \in {"Rgb8", "Rgb16", "Rgb32F"} -> 3
      [] color \in {"Rgba8", "Rgba16", "Rgba32F"} -> 4

\* C23: for every colour type of the decoded image, the channel count of the
\* input and output buffers is 3 when the image has 1 or 3 channels and 4
\* when it has 2 or 4, so it is always 3 or 4
C23_ChannelCountThreeOrFour ==
    \A t \in Threads :
        th[t].pc \in {"q_load", "q_native"} =>
            LET expected == IF ChannelCount(th[t].color) \in {1, 3} THEN 3 ELSE 4
            IN  th[t].inb.c = expected /\ th[t].out.c = expected


\* len = h * w * c over the integers, told without multiplying
ExactProduct(len, h, w, c) ==
    IF h = 0 \/ w = 0 \/ c = 0 THEN len = 0
    ELSE /\ h > 0 /\ w > 0 /\ c > 0
         /\ len % c = 0
         /\ (len \div c) % w = 0
         /\ (len \div c) \div w = h

\* C24: after a native status of 0, the number of bytes copied out of the
\* output buffer is exactly width * height * channels of that buffer, Ok is
\* returned only with an image of that many bytes, and every other case
\* returns an error
C24_CopiedLengthIsExact ==
    \A t \in Threads :
        /\ th[t].copied =>
              ExactProduct(th[t].length, th[t].out.h, th[t].out.w, th[t].out.c)
        /\ th[t].res = "ok" => th[t].copied
        /\ th[t].res # "panic"


\* the positions of a thread inside process_image
ProcessPcs == {"q_load", "q_native", "q_len", "q_copy", "q_free", "q_conv",
               "q_ret"}

\* a step of process_image by thread t, its entry and its return included
ProcessStepOf(t) ==
    /\ th'[t] # th[t]
    /\ th[t].pc \in ProcessPcs \/ th'[t].pc \in ProcessPcs

\* C25: a step of process_image, on its success and failure paths alike,
\* leaves the handle (native pointer, scale factor, mode), the shared
\* reference count and INSTANCES as they were and calls neither
\* realcugan_free nor realcugan_destroy_gpu_instance; at its return the
\* handle can be used again
C25_ProcessLeavesHandleAndCounters ==
    [][\A t \in Threads :
          ProcessStepOf(t) =>
             /\ UNCHANGED <<INSTANCES, handles, arcs, cons, freeCalls>>
             /\ th'[t].pc \notin {"d_free", "d_destroy", "v_destroy"}
             /\ (th[t].pc = "q_ret" /\ th'[t].pc = "idle")
                   => handles'[th[t].h].st = "live"]_vars

\* C25's case: process_image has run to its failure return on a handle that
\* shares its context with a clone
C25_Witness ==
    \E t \in Threads :
        /\ th[t].pc = "q_ret"
        /\ th[t].res = "err_status"
        /\ handles[th[t].h].st = "live"
        /\ arcs[handles[th[t].h].arc].strong = 2


\* thread t takes a step that brings it to position pc
Reaches(t, pc) == th'[t].pc = pc /\ th[t].pc # pc

\* C26: within one build the steps occur only in the order bytes resolved,
\* device validated, scale validated, realcugan_init, realcugan_load_files,
\* realcugan_set_parameters, INSTANCES incremented, and a failure at any
\* step stops the sequence: no native call without the model bytes, and no
\* realcugan_set_parameters after a realcugan_init that returned null or
\* after a failed load
C26_BuildStepsInOrder ==
    [][\A t \in Threads :
          /\ (th[t].pc = "idle" /\ th'[t].pc \in {"v_load", "bad_scale", "init"})
                => get_bytes_ok
          /\ Reaches(t, "init") =>
                /\ th[t].pc = "idle"
                /\ GpuAccepted(th'[t].args.gpu)
                /\ calculate_prepadding(th'[t].args.scale) # 0
          /\ Reaches(t, "load") => th[t].pc = "init"
          /\ Reaches(t, "setp") => th[t].pc = "load" /\ th[t].ptr # Null
          /\ Reaches(t, "incr") => th[t].pc = "setp"
          /\ INSTANCES' = U8Inc(INSTANCES) =>
                \E u \in Threads : th[u].pc = "incr" /\ th'[u].pc = "idle"
          /\ th[t].pc \in {"v_load", "v_destroy", "bad_scale"} =>
                th'[t].pc \in {th[t].pc, "v_destroy", "idle"}]_vars


\* a step of a construction by thread t other than its final fetch_add: the
\* entry of build or new, and every step up to an error return
ConstructionStepBeforeCount(t) ==
    /\ th'[t] # th[t] \/ builder'.builds # builder.builds
    /\ \/ th[t].pc \in {"v_load", "v_destroy", "bad_scale", "init", "load", "setp"}
       \/ th[t].pc = "idle" /\ th'[t].pc \in {"idle", "v_load", "bad_scale", "init"}
                            /\ handles' = handles

\* h is the only handle that has not been dropped
LastLiveHandle(h) ==
    \A g \in Handles \ {h} : handles[g].st \in {"none", "dropped"}

LiveContexts == pool + Cardinality({k \in Ctxs : LiveOf(k) # {}})

\* C28: INSTANCES equals the number of live contexts however many are live
\* at once, 256 or more included, so that neither a final drop nor a failing
\* device validation calls realcugan_destroy_gpu_instance while another
\* context is live
C28_InstancesNeverWraps ==
    /\ th[Main].pc = "idle" => INSTANCES = LiveContexts
    /\ \A t \in Threads :
          th[t].pc \in {"v_destroy", "d_destroy", "m_destroy"} => LiveContexts = 0

==========================================================================
